---- MODULE Spec2Model ----
(***************************************************************************)
(* Model of src/src/WhatsAppStickersConverter.js: the codec bridge          *)
(* (convertImageDataToWebpURL, convertWebpURLToPngURL), the quality loop of *)
(* resizeAndConvert, and the pack assembly of convertImagesToPacks.         *)
(***************************************************************************)
EXTENDS Integers, Sequences, FiniteSets, TLC

(***************************************************************************)
(* IEEE-754 binary64 arithmetic, as far as the quality loop needs it.       *)
(* `quality` is a JavaScript Number.  A non-negative double is held as an   *)
(* exact integer count of units of 2^-56, written as three little-endian    *)
(* limbs of 24 bits, because the counts exceed 32-bit integers.             *)
(* Every double in [2^-4, 128) with 53 significant bits is such a count.    *)
(***************************************************************************)
\* The Number literals of the quality loop: 1.0 (line 187), 0.08 (line 205),
\* 0.07 (line 207), each the nearest double, in units of 2^-56.
QualityStart == << 0, 0, 256 >>
QualityStep  == << 11408507, 8053063, 20 >>
QualityFloor == << 12079596, 15435038, 17 >>

\* Significant bits of a JavaScript Number.
Mantissa == 53

LimbBits == 8 * 3
Base == 2 ^ LimbBits
\* 1.0 is QualityStart[3] units of the top limb.
FracUnit == QualityStart[3]

\* Bring the limbs r1, r2, r3 (r1, r2 possibly negative or >= Base) into range.
Carry(r1, r2, r3) ==
  LET d1 == r1 % Base
      t2 == r2 + ((r1 - d1) \div Base)
      d2 == t2 % Base
  IN  << d1, d2, r3 + ((t2 - d2) \div Base) >>

BSub(a, b) == Carry(a[1] - b[1], a[2] - b[2], a[3] - b[3])
BAddSmall(a, n) == Carry(a[1] + n, a[2], a[3])
BMulSmall(a, m) == Carry(a[1] * m, a[2] * m, a[3] * m)

\* a <= b
BLeq(a, b) ==
  \/ a[3] < b[3]
  \/ a[3] = b[3] /\ a[2] < b[2]
  \/ a[3] = b[3] /\ a[2] = b[2] /\ a[1] <= b[1]

RECURSIVE IntBits(_)
IntBits(n) == IF n = 0 THEN 0 ELSE 1 + IntBits(n \div 2)

\* Number of significant bits of a.
BitLen(a) ==
  IF a[3] # 0 THEN 2 * LimbBits + IntBits(a[3])
  ELSE IF a[2] # 0 THEN LimbBits + IntBits(a[2])
  ELSE IntBits(a[1])

\* a rounded to a multiple of `unit` (a power of two below Base), ties to even.
RoundTo(a, unit) ==
  LET r == a[1] % unit
  IN  IF r = 0 THEN a
      ELSE IF 2 * r < unit THEN BAddSmall(a, 0 - r)
      ELSE IF 2 * r > unit THEN BAddSmall(a, unit - r)
      ELSE IF ((a[1] \div unit) % 2) = 0 THEN BAddSmall(a, 0 - r)
      ELSE BAddSmall(a, unit - r)

\* Round to Mantissa significant bits: the rounding of every binary64 operation.
RoundDouble(a) ==
  LET bits == BitLen(a)
  IN  IF bits > Mantissa THEN RoundTo(a, 2 ^ (bits - Mantissa)) ELSE a

\* a - b and a * m as JavaScript computes them on Numbers.
DoubleSub(a, b) == RoundDouble(BSub(a, b))
DoubleMul(a, m) == RoundDouble(BMulSmall(a, m))

\* Math.ceil of a double, as an integer.
MathCeil(a) ==
  IF a[3] % FracUnit # 0 \/ a[2] # 0 \/ a[1] # 0
  THEN (a[3] \div FracUnit) + 1
  ELSE a[3] \div FracUnit

(***************************************************************************)
(* Data URLs.  btoa turns n bytes into 4*ceil(n/3) characters, the last     *)
(* 0..2 of them padding; atob turns them back.  A URL is held by its media  *)
(* type, the image it was made from, and the length and padding of its      *)
(* base64 text.  Image 0 is the tray file, image k the k-th sticker file.    *)
(***************************************************************************)
Btoa(n) == [len |-> 4 * ((n + 2) \div 3), pad |-> (3 - (n % 3)) % 3]
Atob(b64) == 3 * (b64.len \div 4) - b64.pad

\* `text` is the number drawn on the image, 0 for none.
DataURL(mime, src, n) == [mime |-> mime, src |-> src, b64 |-> Btoa(n), text |-> 0]
NoURL == DataURL("none", 0, 0)

\* atob(url.replace(/^data:image\/[a-z]+;base64,/, '')).length
ByteLength(url) == Atob(url.b64)

(***************************************************************************)
(* The codec bridge.  Both functions are straight-line code over the native *)
(* module: a call is the list of its statements, run in order until one     *)
(* throws.  `env` is what the native module and the heap do in this call:   *)
(* which statement (if any) throws, and what the native primitive reports.  *)
(***************************************************************************)
EncodeProg ==
  << "create_buffer", "heap_set", "encode", "get_result", "view", "copy",
     "free_result", "destroy_buffer", "return" >>
DecodeProg ==
  << "atob", "create_buffer_with_size", "heap_set", "decode", "get_result", "view",
     "copy", "free_result", "destroy_buffer", "canvas", "return" >>
Prog(op) == IF op = "encode" THEN EncodeProg ELSE DecodeProg

\* The statements that can throw: an allocation that aborts, a write or a view
\* outside the heap, a copy that cannot allocate, a native primitive that traps,
\* atob on text that is not base64.
Throwing(op) ==
  {"create_buffer", "create_buffer_with_size", "heap_set", "encode", "decode",
   "view", "copy", "atob"} \cap {Prog(op)[k] : k \in 1..Len(Prog(op))}

BridgeIdle ==
  [op |-> "none", pc |-> 0, status |-> "idle", fault |-> "none",
   native |-> [ok |-> FALSE, size |-> 0, width |-> 0, height |-> 0, png |-> 0],
   input |-> [src |-> 0, width |-> 0, height |-> 0, len |-> 0],
   inBuf |-> "none", resReg |-> "none", allocs |-> 0, frees |-> 0, dblFree |-> FALSE,
   modulePtr |-> 0, moduleSize |-> 0, moduleWidth |-> 0, moduleHeight |-> 0,
   resultPointer |-> 0, resultSize |-> 0, width |-> 0, height |-> 0,
   result |-> 0 - 1, ret |-> NoURL,
   resultIn |-> "none", stale |-> FALSE, log |-> << >>]

\* The arguments: an ImageData (93), or the bytes atob makes of a data URL (107-112).
EncodeInput(src, px) == [src |-> src, width |-> px, height |-> px, len |-> px * px * 4]
DecodeInput(url) == [src |-> url.src, width |-> 0, height |-> 0, len |-> ByteLength(url)]

\* Entry of convertImageDataToWebpURL(imageData, quality) or convertWebpURLToPngURL(url).
BridgeCall(op, input, env) ==
  [BridgeIdle EXCEPT !.op = op, !.pc = 1, !.status = "running", !.fault = env.fault,
                     !.native = env.native, !.input = input]

\* api.free_result(p): frees the region p points to; a null pointer frees nothing.
FreeResult(b) ==
  IF b.resultPointer = 0 THEN b
  ELSE IF b.resReg = "live" THEN [b EXCEPT !.resReg = "freed", !.frees = @ + 1]
  ELSE [b EXCEPT !.dblFree = TRUE]

\* api.destroy_buffer(p)
DestroyBuffer(b) ==
  IF b.inBuf = "live" THEN [b EXCEPT !.inBuf = "freed", !.frees = @ + 1]
  ELSE [b EXCEPT !.dblFree = TRUE]

\* api.create_buffer(w, h) and api.create_buffer_with_size(n)
CreateBuffer(b) == [b EXCEPT !.inBuf = "live", !.allocs = @ + 1]

\* api.encode / api.decode: on success the module allocates its result region and
\* records pointer and size (or dimensions); on failure it records a null result.
NativeCall(b) ==
  IF b.native.ok
  THEN [b EXCEPT !.resReg = "live", !.allocs = @ + 1, !.modulePtr = 1,
                 !.moduleSize = b.native.size,
                 !.moduleWidth = b.native.width, !.moduleHeight = b.native.height]
  ELSE [b EXCEPT !.modulePtr = 0, !.moduleSize = 0, !.moduleWidth = 0, !.moduleHeight = 0]

\* get_encode_result_pointer / _size (97-98); get_decode_result_pointer / _width /
\* _height and width * height * 4 (116-120).
GetResult(b) ==
  IF b.op = "encode"
  THEN [b EXCEPT !.resultPointer = b.modulePtr, !.resultSize = b.moduleSize]
  ELSE [b EXCEPT !.resultPointer = b.modulePtr, !.width = b.moduleWidth,
                 !.height = b.moduleHeight,
                 !.resultSize = b.moduleWidth * b.moduleHeight * 4]

\* An access to the bytes of a region of module memory: `stale` records that the
\* region had been released by then.
Touch(b, region) ==
  IF (region = "inBuf" /\ b.inBuf = "freed") \/ (region = "resReg" /\ b.resReg = "freed")
  THEN [b EXCEPT !.stale = TRUE]
  ELSE b

\* A read of the bytes of `result`, wherever they live.
ReadResult(b) == IF b.resultIn = "heap" THEN Touch(b, "resReg") ELSE b

\* Variant: `result` is the view itself, not a copy of it.
CopyAliases(b) == [b EXCEPT !.result = b.resultSize, !.resultIn = "heap"]

\* new Uint8Array(resultView) / new Uint8ClampedArray(resultView) (100, 122): reads
\* the result region through the view into an array of its own.
Copy(b) == [Touch(b, "resReg") EXCEPT !.result = b.resultSize, !.resultIn = "js"]

\* The value returned: a webp data URL of the copied bytes (103), or the PNG the
\* canvas makes of the decoded raster (126-133).
Return(b) ==
  IF b.op = "encode"
  THEN [b EXCEPT !.status = "returned", !.ret = DataURL("webp", b.input.src, b.result)]
  ELSE [b EXCEPT !.status = "returned", !.ret = DataURL("png", b.input.src, b.native.png)]

\* One statement of the call.
BridgeExec(b) ==
  LET stmt == Prog(b.op)[b.pc]
      done == [b EXCEPT !.log = Append(@, stmt)]
      n    == [done EXCEPT !.pc = @ + 1]
  IN  IF stmt = b.fault THEN [b EXCEPT !.status = "thrown"]
      ELSE CASE stmt = "atob"                    -> n
             [] stmt = "create_buffer"           -> CreateBuffer(n)
             [] stmt = "create_buffer_with_size" -> CreateBuffer(n)
             [] stmt = "heap_set"                -> Touch(n, "inBuf")
             [] stmt = "encode"                  -> NativeCall(Touch(n, "inBuf"))
             [] stmt = "decode"                  -> NativeCall(Touch(n, "inBuf"))
             [] stmt = "get_result"              -> GetResult(n)
             [] stmt = "view"                    -> n
             [] stmt = "copy"                    -> Copy(n)
             [] stmt = "free_result"             -> FreeResult(n)
             [] stmt = "destroy_buffer"          -> DestroyBuffer(n)
             [] stmt = "canvas"                  ->
                  \* new ImageData(result, width, height) throws on a zero dimension
                  IF b.width = 0 \/ b.height = 0 THEN [b EXCEPT !.status = "thrown"]
                  ELSE ReadResult(n)
             [] stmt = "return"                  ->
                  Return(IF b.op = "encode" THEN ReadResult(done) ELSE done)

RECURSIVE BridgeRun(_)
\* The whole synchronous call.
BridgeRun(b) == IF b.status = "running" THEN BridgeRun(BridgeExec(b)) ELSE b

(***************************************************************************)
(* The quality loop of resizeAndConvert (187-212).                          *)
(***************************************************************************)
SizeCeiling == 100000
Percent == 100
KbBytes == 1024

CeilDiv(n, d) == (n + d - 1) \div d

\* Variant: the ceiling taken in the kilobytes the message speaks of.
FitsCeilingKb(byteLength) == CeilDiv(byteLength, KbBytes) <= SizeCeiling \div 1000

\* byteLength <= 100000 (202)
FitsCeiling(byteLength) == byteLength <= SizeCeiling

\* Variant: kilobytes of 1000 bytes.
ErrorKbDecimal(byteLength) == CeilDiv(byteLength, 1000)

\* Math.ceil(byteLength / 1024), the size the error message names (206)
ErrorKb(byteLength) == CeilDiv(byteLength, KbBytes)

\* Math.ceil(quality * 100), the quality handed to the bridge (197)
QualityArg(quality) == MathCeil(DoubleMul(quality, Percent))

LoopIdle ==
  [status |-> "idle", quality |-> QualityStart, webpUrl |-> NoURL, byteLength |-> 0,
   args |-> << >>, errKb |-> 0, cause |-> "none"]

\* let quality = 1.0 (187)
LoopStart == [LoopIdle EXCEPT !.status = "loop"]

\* Variant: the loop takes the first result the bridge returns, whatever its size.
LoopIterFirst(L, b) ==
  IF b.status = "thrown"
  THEN [L EXCEPT !.args = Append(@, QualityArg(L.quality)), !.status = "thrown",
                 !.cause = "bridge"]
  ELSE [L EXCEPT !.args = Append(@, QualityArg(L.quality)), !.status = "returned",
                 !.webpUrl = b.ret, !.byteLength = ByteLength(b.ret)]

\* One turn of while (true) (193-211), given the bridge call it made.
LoopIter(L, b) ==
  LET called == [L EXCEPT !.args = Append(@, QualityArg(L.quality))]
  IN  IF b.status = "thrown"
      THEN [called EXCEPT !.status = "thrown", !.cause = "bridge"]
      ELSE LET len  == ByteLength(b.ret)
               got  == [called EXCEPT !.webpUrl = b.ret, !.byteLength = len]
               next == DoubleSub(L.quality, QualityStep)
           IN  IF FitsCeiling(len) THEN [got EXCEPT !.status = "returned"]
               ELSE IF BLeq(next, QualityFloor)
                    THEN [got EXCEPT !.quality = next, !.status = "thrown",
                                     !.cause = "floor", !.errKb = ErrorKb(len)]
                    ELSE [got EXCEPT !.quality = next]

(***************************************************************************)
(* convertImagesToPacks (219-257): the pure parts.                          *)
(***************************************************************************)
PackSize == 30
MinPack == 3

\* Variant: one more than the number of full packs.
NumOfPacksFloor(n) == (n \div PackSize) + 1

\* Math.ceil(stickersFiles.length / 30) (226)
NumOfPacks(n) == CeilDiv(n, PackSize)

\* Math.floor(i / 30) (240), as an index from 1
PackOf(i) == (i \div PackSize) + 1

\* The tray of pack `index` (from 1), before Promise.all gathers them (232-234).
\* numOfPacks === 1 ? Promise.resolve(tray) : addNumberToTray(tray, `${index + 1}`)
\* with index the map index, from 0.
\* Variant: the map index itself, from 0.
TrayTextFromZero(index) == index

NeedsOverlay(numOfPacks) == numOfPacks # 1
TrayText(index) == index + 1

\* addNumberToTray(url, text) (152-173): the canvas redraws the image with the
\* number on it and re-encodes it as a PNG; the badge adds to its bytes.
BadgeBytes == 16 * 16
AddNumberToTray(url, text) ==
  [DataURL("png", url.src, ByteLength(url) + BadgeBytes) EXCEPT !.text = text]

\* Array.prototype.splice(-k): removes and returns the last k elements.
SpliceStart(a, k) == IF k > Len(a) THEN 0 ELSE Len(a) - k
SpliceKept(a, k) == SubSeq(a, 1, SpliceStart(a, k))
SpliceRemoved(a, k) == SubSeq(a, SpliceStart(a, k) + 1, Len(a))

\* Variants: no balancing; the moved stickers put behind the last pack's own.
RebalanceNone(packs, numOfPacks) == packs
RebalanceBehind(packs, numOfPacks) ==
  IF numOfPacks > 1 /\ Len(packs[numOfPacks]) < MinPack
  THEN LET k == MinPack - Len(packs[numOfPacks])
       IN  [packs EXCEPT ![numOfPacks - 1] = SpliceKept(@, k),
                         ![numOfPacks] = @ \o SpliceRemoved(packs[numOfPacks - 1], k)]
  ELSE packs

\* Variant: one sticker is moved, however many the last pack lacks.
RebalanceOne(packs, numOfPacks) ==
  IF numOfPacks > 1 /\ Len(packs[numOfPacks]) < MinPack
  THEN [packs EXCEPT ![numOfPacks - 1] = SpliceKept(@, 1),
                     ![numOfPacks] = SpliceRemoved(packs[numOfPacks - 1], 1) \o @]
  ELSE packs

\* balance stickers if the last pack has less than 3 images (243-249)
Rebalance(packs, numOfPacks) ==
  IF numOfPacks > 1 /\ Len(packs[numOfPacks]) < MinPack
  THEN LET k == MinPack - Len(packs[numOfPacks])
       IN  [packs EXCEPT ![numOfPacks - 1] = SpliceKept(@, k),
                         ![numOfPacks] = SpliceRemoved(packs[numOfPacks - 1], k) \o @]
  ELSE packs

(***************************************************************************)
(* State.                                                                   *)
(***************************************************************************)
VARIABLES
  br,             \* the bridge call in progress, or the last one made
  enc,            \* the quality loop in progress, or the last one run
  achieved,       \* history: the encoded sizes the bridge returned to this loop
  N,              \* stickersFiles.length
  codec,          \* what the native encoder does in this run
  pc,             \* where the async body of convertImagesToPacks stands
  tray,           \* const tray
  trays,          \* const trays
  pending,        \* the addNumberToTray calls not yet resolved
  overlaid,       \* the URLs the resolved ones returned, by pack index
  overlayCalls,   \* history: the text of every addNumberToTray call, in call order
  i,              \* the loop variable of the sticker loop
  stickersInPack, \* const stickersInPack
  emitted,        \* history: the emitter.emit calls made, in order
  looped,         \* history: the images whose quality loop returned a result
  started,        \* history: the stickers processImageFile was called for, in order
  failure,        \* history: what threw into the catch block, "none" if nothing
  module,         \* this.module: 0 for null, k for the module the k-th init call loaded
  api,            \* this.api: 0 for null, k for the wrappers made over module k
  inits,          \* the init() calls made, in order: promise, timer and load of each
  use,            \* history: what the last bridge call found in this.module / this.api
  runs,           \* the convertImagesToPacks runs in progress on one converter
  cur,            \* the run whose synchronous code is on the stack, 0 if none
  arena           \* the regions allocated and not released in the module's memory

codecVars == << br, enc, achieved >>
packVars == << N, codec, pc, tray, trays, pending, overlaid, overlayCalls, i,
               stickersInPack, emitted, looped, started, failure >>
initVars == << module, api, inits, use >>
runVars == << runs, cur, arena >>
vars == << br, enc, achieved, N, codec, pc, tray, trays, pending, overlaid,
           overlayCalls, i, stickersInPack, emitted, looped, started, failure,
           module, api, inits, use, runs, cur, arena >>

(***************************************************************************)
(* What the native module may do in one call.                               *)
(***************************************************************************)
MaxOver == 2
StickerPx == 512
TrayPx == 96

FitSizes == {1, SizeCeiling - 1, SizeCeiling}
OverSizes == {SizeCeiling + 1 + KbBytes * k : k \in 0..MaxOver}

NativeFails == [ok |-> FALSE, size |-> 0, width |-> 0, height |-> 0, png |-> 0]
Encoded(n) == [ok |-> TRUE, size |-> n, width |-> 0, height |-> 0, png |-> 0]
Decoded(w, h, n) == [ok |-> TRUE, size |-> 0, width |-> w, height |-> h, png |-> n]

EncodeOutcomes == {Encoded(n) : n \in FitSizes \cup OverSizes} \cup {NativeFails}
DecodeOutcomes == {Decoded(w, w, w * w) : w \in {1, 2}} \cup {NativeFails}

EncodeEnvs ==
  {[fault |-> f, native |-> o] : f \in {"none"} \cup Throwing("encode"), o \in EncodeOutcomes}
DecodeEnvs ==
  {[fault |-> f, native |-> o] : f \in {"none"} \cup Throwing("decode"), o \in DecodeOutcomes}

\* The pack variables while no conversion runs.
PacksIdle ==
  /\ N = 0
  /\ codec = [kind |-> "none", rate |-> 0]
  /\ pc = "idle"
  /\ tray = NoURL
  /\ trays = << >>
  /\ pending = {}
  /\ overlaid = << >>
  /\ overlayCalls = << >>
  /\ i = 0
  /\ stickersInPack = << >>
  /\ emitted = << >>
  /\ looped = {}
  /\ started = << >>
  /\ failure = "none"

\* module = null; api = null (21, 23), no init() call made, no bridge call made.
InitIdle ==
  /\ module = 0
  /\ api = 0
  /\ inits = << >>
  /\ use = [outcome |-> "none", afterResolved |-> FALSE]

\* No run of convertImagesToPacks started, nothing allocated.
NoRun ==
  [pc |-> "idle", left |-> 0, codec |-> [kind |-> "none", rate |-> 0],
   enc |-> LoopIdle, br |-> BridgeIdle]
RunsIdle ==
  /\ runs = [r \in 1..2 |-> NoRun]
  /\ cur = 0
  /\ arena = [inBufs |-> 0, resRegs |-> 0]

(***************************************************************************)
(* SpecBridge: single calls of the bridge, statement by statement.          *)
(***************************************************************************)
BridgeInit ==
  /\ br \in {BridgeCall("encode", EncodeInput(1, StickerPx), e) : e \in EncodeEnvs}
            \cup {BridgeCall("decode", DecodeInput(DataURL("webp", 1, n)), e) :
                    n \in FitSizes, e \in DecodeEnvs}
  /\ enc = LoopIdle
  /\ achieved = {}
  /\ PacksIdle
  /\ InitIdle
  /\ RunsIdle

BridgeStep ==
  /\ br.status = "running"
  /\ br' = BridgeExec(br)
  /\ UNCHANGED << enc, achieved >>
  /\ UNCHANGED packVars
  /\ UNCHANGED << initVars, runVars >>

BridgeNext == BridgeStep

SpecBridge == BridgeInit /\ [][BridgeNext]_vars

(***************************************************************************)
(* SpecEncoder: one quality loop, turn by turn, over every native behaviour.*)
(***************************************************************************)
EncoderInit ==
  /\ br = BridgeIdle
  /\ enc = LoopStart
  /\ achieved = {}
  /\ PacksIdle
  /\ InitIdle
  /\ RunsIdle

EncodeAttempt ==
  /\ enc.status = "loop"
  /\ \E e \in EncodeEnvs :
       LET b == BridgeRun(BridgeCall("encode", EncodeInput(1, StickerPx), e))
       IN  /\ br' = b
           /\ enc' = LoopIter(enc, b)
           /\ achieved' = IF b.status = "returned" THEN achieved \cup {b.result} ELSE achieved
  /\ UNCHANGED packVars
  /\ UNCHANGED << initVars, runVars >>

EncoderNext == EncodeAttempt

SpecEncoder == EncoderInit /\ [][EncoderNext]_vars

(***************************************************************************)
(* Spec: one run of convertImagesToPacks(trayFile, stickersFiles).  Each    *)
(* action is the code between two awaits of the async body.                 *)
(***************************************************************************)
MaxN == 62

\* A native encoder whose output size is a function of the quality it is given,
\* one that reports failure, and one that traps.
Rates == {1000, 1010, 8000}
PackCodecs ==
  {[kind |-> "sized", rate |-> r] : r \in Rates}
  \cup {[kind |-> "fails", rate |-> 0], [kind |-> "traps", rate |-> 0]}

CodecEnv(c, arg) ==
  [fault  |-> IF c.kind = "traps" THEN "encode" ELSE "none",
   native |-> IF c.kind = "sized" THEN Encoded(c.rate * arg) ELSE NativeFails]

\* The PNG sizes Jimp and the canvas may produce for a 96 x 96 image.
PngSizes == {TrayPx, TrayPx * TrayPx * 4}

\* What a listener does when the emitter calls it; "none": no listener registered.
ListenerOutcomes == {"returns", "throws"}
ErrorListenerOutcomes == {"returns", "throws", "none"}

RECURSIVE RunLoop(_, _, _)
\* The whole of the synchronous loop 187-212 for image `src` under codec c.
RunLoop(S, c, src) ==
  IF S.enc.status # "loop" THEN S
  ELSE LET b == BridgeRun(BridgeCall("encode", EncodeInput(src, StickerPx),
                                     CodecEnv(c, QualityArg(S.enc.quality))))
       IN  RunLoop([enc |-> LoopIter(S.enc, b), br |-> b], c, src)

\* resizeAndConvert(input, 96, false) (175-216): the PNG of the contained image,
\* of n bytes; no webp, no loop.
TrayImage(n) == DataURL("png", 0, n)

\* What Promise.all gives for pack k (from 1) (232-234).
TrayOf(numOfPacks, k, base, done) == IF NeedsOverlay(numOfPacks) THEN done[k] ELSE base

Init ==
  /\ br = BridgeIdle
  /\ enc = LoopIdle
  /\ achieved = {}
  /\ N \in 0..MaxN
  /\ codec \in PackCodecs
  /\ pc = "tray"
  /\ tray = NoURL
  /\ trays = << >>
  /\ pending = {}
  /\ overlaid = << >>
  /\ overlayCalls = << >>
  /\ i = 0
  /\ stickersInPack = << >>
  /\ emitted = << >>
  /\ looped = {}
  /\ started = << >>
  /\ failure = "none"
  /\ InitIdle
  /\ RunsIdle

\* catch (e) { emitter.emit('error', e) } (252-254), after the emit calls `em`.
\* With no 'error' listener emit throws e itself, and so may a listener.
Catch(em) ==
  \E h \in ErrorListenerOutcomes :
    /\ emitted' = Append(em, "error")
    /\ pc' = IF h = "returns" THEN "failed" ELSE "unhandled"

\* The code after the sticker loop (243-251), after the emit calls `em`.
Finish(packs, em) ==
  /\ stickersInPack' = Rebalance(packs, NumOfPacks(N))
  /\ \E h \in ListenerOutcomes :
       IF h = "returns"
       THEN emitted' = Append(em, "load") /\ pc' = "loaded" /\ UNCHANGED failure
       ELSE Catch(Append(em, "load")) /\ failure' = "load"

\* await processImageFile(trayFile, 'tray') rejects (223).
TrayFails ==
  /\ pc = "tray"
  /\ Catch(emitted)
  /\ failure' = "tray"
  /\ UNCHANGED << br, enc, achieved, N, codec, tray, trays, pending, overlaid,
                  overlayCalls, i, stickersInPack, looped, started >>
  /\ UNCHANGED << initVars, runVars >>

\* await processImageFile(trayFile, 'tray') resolves; 224-234 up to the await.
TrayProcessed ==
  /\ pc = "tray"
  /\ \E n \in PngSizes : tray' = TrayImage(n)
  /\ LET numOfPacks == NumOfPacks(N)
     IN  /\ stickersInPack' = [p \in 1..numOfPacks |-> << >>]
         /\ overlaid' = [p \in 1..numOfPacks |-> NoURL]
         /\ IF NeedsOverlay(numOfPacks)
            THEN /\ pending' = 1..numOfPacks
                 /\ overlayCalls' = [p \in 1..numOfPacks |-> TrayText(p - 1)]
            ELSE /\ pending' = {}
                 /\ overlayCalls' = << >>
  /\ pc' = "trays"
  /\ UNCHANGED << br, enc, achieved, N, codec, trays, i, emitted, looped, started,
                  failure >>
  /\ UNCHANGED << initVars, runVars >>

\* One addNumberToTray call resolves (152-173); the calls resolve in any order.
OverlayResolved ==
  /\ pc = "trays"
  /\ \E k \in pending :
       /\ overlaid' = [overlaid EXCEPT ![k] = AddNumberToTray(tray, overlayCalls[k])]
       /\ pending' = pending \ {k}
  /\ UNCHANGED << br, enc, achieved, N, codec, pc, tray, trays, overlayCalls, i,
                  stickersInPack, emitted, looped, started, failure >>
  /\ UNCHANGED << initVars, runVars >>

\* Variant: every sticker is handed to processImageFile at once, as by a
\* Promise.all over the files.
TraysResolvedStartsAll ==
  /\ pc = "trays"
  /\ pending = {}
  /\ N > 0
  /\ pc' = "stickers"
  /\ started' = [k \in 1..N |-> k]
  /\ trays' = [k \in 1..NumOfPacks(N) |-> TrayOf(NumOfPacks(N), k, tray, overlaid)]
  /\ UNCHANGED << br, enc, achieved, N, codec, tray, pending, overlaid, overlayCalls, i,
                  looped, stickersInPack, emitted, failure >>
  /\ UNCHANGED << initVars, runVars >>

\* await Promise.all(...) resolves (232); the sticker loop starts (236-238), or,
\* with no sticker, the run ends (243-251).
TraysResolved ==
  /\ pc = "trays"
  /\ pending = {}
  /\ trays' = [k \in 1..NumOfPacks(N) |-> TrayOf(NumOfPacks(N), k, tray, overlaid)]
  /\ IF N = 0
     THEN Finish(stickersInPack, emitted) /\ UNCHANGED started
     ELSE /\ pc' = "stickers"
          /\ started' = Append(started, i + 1)
          /\ UNCHANGED << stickersInPack, emitted, failure >>
  /\ UNCHANGED << br, enc, achieved, N, codec, tray, pending, overlaid, overlayCalls, i,
                  looped >>
  /\ UNCHANGED << initVars, runVars >>

\* await processImageFile(stickersFiles[i], 'stickers') rejects before the quality
\* loop: the file cannot be read as an image (Jimp.read, 176).
\* Variant: a sticker that cannot be read is skipped and the run goes on.
StickerUnreadableSkips ==
  /\ pc = "stickers"
  /\ i + 1 < N
  /\ i' = i + 1
  /\ failure' = "sticker"
  /\ started' = Append(started, i + 2)
  /\ UNCHANGED << br, enc, achieved, N, codec, pc, tray, trays, pending, overlaid,
                  overlayCalls, stickersInPack, emitted, looped >>
  /\ UNCHANGED << initVars, runVars >>

StickerUnreadable ==
  /\ pc = "stickers"
  /\ Catch(emitted)
  /\ failure' = "sticker"
  /\ UNCHANGED << br, enc, achieved, N, codec, tray, trays, pending, overlaid,
                  overlayCalls, i, stickersInPack, looped, started >>
  /\ UNCHANGED << initVars, runVars >>

\* The quality loop of sticker i runs (83, 187-212) and the await at 238 settles;
\* 239-240, then the next turn of the loop up to its await or, after the last
\* sticker, 243-251.
StickerProcessed ==
  /\ pc = "stickers"
  /\ LET R == RunLoop([enc |-> LoopStart, br |-> br], codec, i + 1)
     IN  /\ br' = R.br
         /\ enc' = R.enc
         /\ looped' = IF R.enc.status = "returned" THEN looped \cup {i + 1} ELSE looped
         /\ IF R.enc.status = "thrown"
            THEN /\ Catch(emitted)
                 /\ failure' = "sticker"
                 /\ UNCHANGED << i, stickersInPack, started >>
            ELSE \E h \in ListenerOutcomes :
                   IF h = "throws"
                   THEN /\ Catch(Append(emitted, "stickerLoad"))
                        /\ failure' = "stickerLoad"
                        /\ UNCHANGED << i, stickersInPack, started >>
                   ELSE LET packs == [stickersInPack EXCEPT
                                        ![PackOf(i)] = Append(@, R.enc.webpUrl)]
                        IN  /\ i' = i + 1
                            /\ IF i + 1 < N
                               THEN /\ stickersInPack' = packs
                                    /\ emitted' = Append(emitted, "stickerLoad")
                                    /\ pc' = "stickers"
                                    /\ started' = Append(started, i + 2)
                                    /\ UNCHANGED failure
                               ELSE /\ Finish(packs, Append(emitted, "stickerLoad"))
                                    /\ UNCHANGED started
  /\ UNCHANGED << achieved, N, codec, tray, trays, pending, overlaid, overlayCalls >>
  /\ UNCHANGED << initVars, runVars >>

Next ==
  \/ TrayFails
  \/ TrayProcessed
  \/ OverlayResolved
  \/ TraysResolved
  \/ StickerUnreadable
  \/ StickerProcessed

Spec == Init /\ [][Next]_vars

(***************************************************************************)
(* SpecInit: init() calls on one converter, against the timer each one sets *)
(* and the load each one starts, and bridge calls made at any moment.       *)
(***************************************************************************)
MaxInits == 2

\* init() up to the return of the promise (25-33): the support check, the
\* 2000 ms timer, the call of libwebp().
InitEntered(supported) ==
  IF supported
  THEN [promise |-> "pending", timer |-> "armed", load |-> "loading", atCall |-> module]
  ELSE [promise |-> "threw", timer |-> "none", load |-> "none", atCall |-> module]

\* resolve() and reject(): only the first of them settles the promise.
Settle(p, how) == IF p = "pending" THEN how ELSE p

ConverterInit ==
  /\ br = BridgeIdle
  /\ enc = LoopIdle
  /\ achieved = {}
  /\ PacksIdle
  /\ InitIdle
  /\ RunsIdle

\* A call of init() (25-54).
InitCall ==
  /\ Len(inits) < MaxInits
  /\ \E supported \in BOOLEAN : inits' = Append(inits, InitEntered(supported))
  /\ UNCHANGED << module, api, use >>
  /\ UNCHANGED << codecVars, packVars, runVars >>

\* Variant: resolve() is called before the module is stored.
LoadResolvesUnset ==
  \E k \in 1..Len(inits) :
    /\ inits[k].load = "loading"
    /\ inits' = [inits EXCEPT ![k].load = "loaded",
                              ![k].promise = Settle(@, "resolved")]
    /\ UNCHANGED << module, api, use >>
    /\ UNCHANGED << codecVars, packVars, runVars >>

\* The .then callback of libwebp() of the k-th call (34-52).
LoadResolves ==
  \E k \in 1..Len(inits) :
    /\ inits[k].load = "loading"
    /\ module' = k
    /\ api' = k
    /\ inits' = [inits EXCEPT ![k].load = "loaded",
                              ![k].promise = Settle(@, "resolved")]
    /\ UNCHANGED use
    /\ UNCHANGED << codecVars, packVars, runVars >>

\* libwebp() of the k-th call rejects: there is no .catch, nothing else happens.
LoadRejects ==
  \E k \in 1..Len(inits) :
    /\ inits[k].load = "loading"
    /\ inits' = [inits EXCEPT ![k].load = "failed"]
    /\ UNCHANGED << module, api, use >>
    /\ UNCHANGED << codecVars, packVars, runVars >>

\* The timer callback of the k-th call (32); the timer is never cleared.
TimerFires ==
  \E k \in 1..Len(inits) :
    /\ inits[k].timer = "armed"
    /\ inits' = [inits EXCEPT ![k].timer = "fired",
                              ![k].promise = Settle(@, "rejected")]
    /\ UNCHANGED << module, api, use >>
    /\ UNCHANGED << codecVars, packVars, runVars >>

\* A call of convertImageDataToWebpURL or convertWebpURLToPngURL at this moment:
\* its first statement reads this.api (94, 113).
BridgeUse ==
  /\ use' = [outcome       |-> IF module = 0 \/ api = 0 THEN "null" ELSE "ok",
             afterResolved |-> \E k \in 1..Len(inits) : inits[k].promise = "resolved"]
  /\ UNCHANGED << module, api, inits >>
  /\ UNCHANGED << codecVars, packVars, runVars >>

ConverterNext ==
  \/ InitCall
  \/ LoadResolves
  \/ LoadRejects
  \/ TimerFires
  \/ BridgeUse

SpecInit == ConverterInit /\ [][ConverterNext]_vars

(***************************************************************************)
(* SpecRuns: two runs of convertImagesToPacks on one converter, their       *)
(* sticker loops interleaved at the awaits, the bridge statement by         *)
(* statement.  JavaScript runs the code between two awaits to completion:   *)
(* `cur` is the run whose code is on the stack.                             *)
(***************************************************************************)
MaxRunStickers == 2

\* The regions of call b that are allocated and not released.
LiveIn(b) == IF b.inBuf = "live" THEN 1 ELSE 0
LiveRes(b) == IF b.resReg = "live" THEN 1 ELSE 0

\* The module's memory after a statement took the call from b to c.
ArenaAfter(a, b, c) ==
  [inBufs  |-> a.inBufs + LiveIn(c) - LiveIn(b),
   resRegs |-> a.resRegs + LiveRes(c) - LiveRes(b)]

\* this.convertImageDataToWebpURL(imageData, Math.ceil(quality * 100)) (197)
RunBridgeCall(c, L) ==
  BridgeCall("encode", EncodeInput(1, StickerPx), CodecEnv(c, QualityArg(L.quality)))

RunsInit ==
  /\ br = BridgeIdle
  /\ enc = LoopIdle
  /\ achieved = {}
  /\ PacksIdle
  /\ InitIdle
  /\ RunsIdle

\* convertImagesToPacks(trayFile, stickersFiles) is called (219-223); the tray
\* makes no bridge call.
RunStart ==
  \E r \in 1..2, n \in 1..MaxRunStickers :
    /\ cur = 0
    /\ runs[r].pc = "idle"
    /\ runs' = [runs EXCEPT ![r].pc = "await", ![r].left = n]
    /\ UNCHANGED << cur, arena >>
    /\ UNCHANGED << codecVars, packVars, initVars >>

\* The awaits of processImageFile for the next sticker of run r are over (74-83,
\* 176-185): the synchronous quality loop starts with its first bridge call.
RunResume ==
  \E r \in 1..2, c \in PackCodecs :
    /\ cur = 0
    /\ runs[r].pc = "await"
    /\ runs' = [runs EXCEPT ![r].pc = "sync", ![r].codec = c, ![r].enc = LoopStart,
                            ![r].br = RunBridgeCall(c, LoopStart)]
    /\ cur' = r
    /\ UNCHANGED arena
    /\ UNCHANGED << codecVars, packVars, initVars >>

\* The file of the next sticker of run r cannot be read: the run ends in the catch.
RunUnreadable ==
  \E r \in 1..2 :
    /\ cur = 0
    /\ runs[r].pc = "await"
    /\ runs' = [runs EXCEPT ![r].pc = "failed"]
    /\ UNCHANGED << cur, arena >>
    /\ UNCHANGED << codecVars, packVars, initVars >>

\* One statement of the bridge call of the run on the stack (93-104).
RunStep ==
  \E r \in 1..2 :
    /\ cur = r
    /\ runs[r].pc = "sync"
    /\ runs[r].br.status = "running"
    /\ LET b == BridgeExec(runs[r].br)
       IN  /\ runs' = [runs EXCEPT ![r].br = b]
           /\ arena' = ArenaAfter(arena, runs[r].br, b)
    /\ UNCHANGED cur
    /\ UNCHANGED << codecVars, packVars, initVars >>

\* The bridge call of the run on the stack is over: the rest of the loop turn
\* (199-211), then the next call, or the return through the awaits to the sticker
\* loop (236-241), or the throw into the catch (252-254).
RunTurn ==
  \E r \in 1..2 :
    /\ cur = r
    /\ runs[r].pc = "sync"
    /\ runs[r].br.status \in {"returned", "thrown"}
    /\ LET L == LoopIter(runs[r].enc, runs[r].br)
       IN  IF L.status = "loop"
           THEN /\ runs' = [runs EXCEPT ![r].enc = L,
                                        ![r].br = RunBridgeCall(runs[r].codec, L)]
                /\ UNCHANGED cur
           ELSE /\ runs' = [runs EXCEPT
                              ![r].enc = L,
                              ![r].left = IF L.status = "returned" THEN @ - 1 ELSE @,
                              ![r].pc = IF L.status = "thrown" THEN "failed"
                                        ELSE IF runs[r].left = 1 THEN "done" ELSE "await"]
                /\ cur' = 0
    /\ UNCHANGED arena
    /\ UNCHANGED << codecVars, packVars, initVars >>

RunsNext ==
  \/ RunStart
  \/ RunResume
  \/ RunUnreadable
  \/ RunStep
  \/ RunTurn

SpecRuns == RunsInit /\ [][RunsNext]_vars

(***************************************************************************)
(* Properties.                                                              *)
(***************************************************************************)
Min(S) == CHOOSE x \in S : \A y \in S : x <= y
Ended(b) == b.status \in {"returned", "thrown"}
Loaded == \E k \in 1..Len(emitted) : emitted[k] = "load"

RECURSIVE Flatten(_)
Flatten(packs) == IF packs = << >> THEN << >> ELSE Head(packs) \o Flatten(Tail(packs))

PackSizes == [p \in 1..Len(stickersInPack) |-> Len(stickersInPack[p])]
Count(seq, e) == Cardinality({k \in 1..Len(seq) : seq[k] = e})
UpTo(n) == [k \in 1..n |-> k]

\* C1 (SpecBridge): on every exit path of a bridge call, by return or by throw,
\* the regions allocated (input buffer, result region) are as many as the regions
\* released, and none is released twice.
C1_BufferConservation ==
  Ended(br) => (br.allocs = br.frees /\ ~br.dblFree)

\* C2 (SpecEncoder): whatever sizes the codec produces, a quality loop that returns
\* returns the image of its last bridge call, and that image has at most 100,000
\* bytes; otherwise the loop is still running or has thrown.
C2_SizeInvariant ==
  /\ enc.status \in {"loop", "returned", "thrown"}
  /\ enc.status = "returned" => (enc.webpUrl = br.ret /\ br.result <= SizeCeiling)

C2_Witness ==
  enc.status = "returned" /\ Len(enc.args) > 1 /\ br.result = SizeCeiling

\* C3 (SpecEncoder): an encode call whose native module reports failure throws, the
\* bridge never returns a zero-length image, and the quality loop never returns on
\* a zero-length result.
C3_ZeroLengthRejected ==
  /\ (br.op = "encode" /\ Ended(br) /\ ~br.native.ok) => br.status = "thrown"
  /\ (br.op = "encode" /\ br.status = "returned") => br.result > 0
  /\ enc.status = "returned" => enc.byteLength > 0

\* C4 (SpecEncoder): the k-th bridge call of a quality loop is given quality
\* 100 - 8 * (k - 1), that is 100, 92, 84, ..., 12, and a loop makes at most 12.
C4_QualitySequence ==
  /\ Len(enc.args) <= 12
  /\ \A k \in 1..Len(enc.args) : enc.args[k] = Percent - 8 * (k - 1)

\* C5 as claimed (SpecEncoder): when the loop throws at the quality floor, the
\* size in its error is the smallest size any attempt of the loop achieved.
C5_ReportsSmallest ==
  enc.cause = "floor" => enc.errKb = CeilDiv(Min(achieved), KbBytes)

\* C5 as amended (SpecEncoder): when the loop throws at the quality floor, the size
\* in its error is the size of the last attempt, in units of 1024 bytes rounded
\* up; it is never below the smallest size achieved, rounded the same way.
C5_ReportsLast ==
  enc.cause = "floor" =>
    /\ br.status = "returned"
    /\ br.result \in achieved
    /\ enc.errKb = CeilDiv(br.result, KbBytes)
    /\ enc.errKb >= CeilDiv(Min(achieved), KbBytes)

C5_Witness ==
  /\ enc.cause = "floor"
  /\ CeilDiv(Min(achieved), KbBytes) < enc.errKb

\* C6 (Spec): with at least 3 stickers, every pack the 'load' event carries holds
\* at least 3 and at most 30 stickers.
C6_PackBounds ==
  (Loaded /\ N >= MinPack) =>
    \A p \in 1..Len(stickersInPack) : Len(stickersInPack[p]) \in MinPack..PackSize

C6_Witness ==
  Loaded /\ Len(stickersInPack) = 3 /\ PackSizes[3] = MinPack /\ PackSizes[2] < PackSize

\* C7 (Spec): the packs of the 'load' event, read pack by pack, are the stickers
\* made from files 1..N in that order, each once.
C7_OrderPreserved ==
  Loaded =>
    LET all == Flatten(stickersInPack)
    IN  /\ Len(all) = N
        /\ \A k \in 1..N : all[k].src = k /\ all[k].mime = "webp"

C7_Witness ==
  Loaded /\ N = PackSize + 2 /\ PackSizes = << PackSize - 1, MinPack >>

\* C8 (Spec): the 'load' event carries ceil(N/30) packs and as many trays; 30
\* stickers give one pack of 30, 31 give packs of 28 and 3.
C8_PackCount ==
  Loaded =>
    /\ Len(stickersInPack) * PackSize >= N
    /\ (Len(stickersInPack) > 0 => (Len(stickersInPack) - 1) * PackSize < N)
    /\ Len(trays) = Len(stickersInPack)
    /\ (N = PackSize => PackSizes = << PackSize >>)
    /\ (N = PackSize + 1 => PackSizes = << PackSize - 2, MinPack >>)

C8_Witness ==
  Loaded /\ N = PackSize + 1 /\ Len(trays) = 2

\* C9 (Spec): with at most 30 stickers addNumberToTray is never called and the
\* tray delivered is the base tray; with more, it is called once per pack and the
\* tray of pack k, counted from 1, carries the number k.
C9_TrayIndices ==
  /\ N <= PackSize => overlayCalls = << >>
  /\ Loaded =>
       IF N <= PackSize
       THEN \A k \in 1..Len(trays) : trays[k] = tray /\ trays[k].text = 0
       ELSE /\ Len(overlayCalls) = Len(stickersInPack)
            /\ Len(trays) = Len(stickersInPack)
            /\ \A k \in 1..Len(trays) :
                 /\ trays[k].text = k
                 /\ trays[k].src = tray.src
                 /\ Cardinality({c \in 1..Len(overlayCalls) : overlayCalls[c] = k}) = 1

C9_Witness ==
  Loaded /\ Len(trays) = 3 /\ trays[3].text = 3

C11_SingleTerminal ==
  LET terminals == {k \in 1..Len(emitted) : emitted[k] \in {"load", "error"}}
  IN  /\ Cardinality(terminals) <= 1
      /\ \A k \in terminals : k = Len(emitted)
      /\ pc \in {"loaded", "failed", "unhandled"} => Cardinality(terminals) = 1

\* C12 (Spec): when the tray or sticker i + 1 fails to process, the run is over:
\* no step is left to take, no sticker after the failing one was started or
\* encoded, 'stickerLoad' was emitted for the stickers before it only, 'load' was
\* not emitted, and 'error' was emitted once, last.
C12_AbortOnFailure ==
  failure \in {"tray", "sticker"} =>
    /\ pc \in {"failed", "unhandled"}
    /\ ~ENABLED Next
    /\ ~Loaded
    /\ Count(emitted, "error") = 1
    /\ emitted = [k \in 1..i |-> "stickerLoad"] \o << "error" >>
    /\ looped = 1..i
    /\ started = IF failure = "tray" THEN << >> ELSE UpTo(i + 1)
    /\ Len(Flatten(stickersInPack)) = i

C12_Witness ==
  failure = "sticker" /\ pc = "failed" /\ i >= PackSize /\ i + 1 < N

\* The source files of the stickers of pack p, and the files lo..hi in order.
Srcs(p) == [j \in 1..Len(stickersInPack[p]) |-> stickersInPack[p][j].src]
Ids(lo, hi) == [j \in 1..(hi - lo + 1) |-> lo + j - 1]

\* C17 (Spec): stickers are moved exactly when there is more than one pack and the
\* last chunk of 30 has fewer than 3: then the last 3 - len stickers of the pack
\* before last go, in order, in front of the last pack, which ends with 3 while
\* the donor ends with 28 or 29; every other pack, and every pack when nothing
\* is moved, is its own chunk of 30 consecutive stickers.
C17_RebalanceFrame ==
  Loaded =>
    LET np      == Len(stickersInPack)
        last    == N - PackSize * (np - 1)
        moved   == MinPack - last
        happens == np > 1 /\ last < MinPack
    IN  /\ \A p \in 1..np :
             Srcs(p) = IF happens /\ p = np
                       THEN Ids(PackSize * (np - 1) - moved + 1, N)
                       ELSE IF happens /\ p = np - 1
                       THEN Ids(PackSize * (np - 2) + 1, PackSize * (np - 1) - moved)
                       ELSE Ids(PackSize * (p - 1) + 1, Min({PackSize * p, N}))
        /\ happens => /\ Len(stickersInPack[np]) = 3
                      /\ Len(stickersInPack[np - 1]) \in {28, 29}

C17_Witness ==
  Loaded /\ N = 2 * PackSize + 1 /\ PackSizes = << 30, 28, 3 >> /\ Srcs(3) = << 59, 60, 61 >>

\* C18 (Spec): stickers are handed to processImageFile in input order, one at a
\* time: sticker k + 1 is started only after the k-th 'stickerLoad', which is
\* emitted only when sticker k has been encoded; a run that emits 'load' has
\* emitted exactly N 'stickerLoad' events before it.
C18_OneAtATime ==
  LET loads == Count(emitted, "stickerLoad")
  IN  /\ started = UpTo(Len(started))
      /\ Len(started) \in loads..(loads + 1)
      /\ Len(started) <= N
      /\ looped = 1..loads
      /\ \A k \in 1..loads : emitted[k] = "stickerLoad"
      /\ Loaded => (loads = N /\ emitted[N + 1] = "load")

C18_Witness ==
  pc = "loaded" /\ N > PackSize /\ Len(started) = N /\ Len(emitted) = N + 1

\* C19 (Spec): a 'stickerLoad' listener cannot change the outcome: a run that ends
\* in 'error' without having emitted 'load' is one whose tray or sticker failed
\* to process, as in a run with no listener.
C19_ListenerNoEffect ==
  (Count(emitted, "error") > 0 /\ ~Loaded) => failure \in {"tray", "sticker"}

\* The place of statement `stmt` among the statements a call has run, 0 if not run.
Pos(log, stmt) ==
  IF \E k \in 1..Len(log) : log[k] = stmt
  THEN CHOOSE k \in 1..Len(log) : log[k] = stmt
  ELSE 0
Times(log, stmts) == Cardinality({k \in 1..Len(log) : log[k] \in stmts})

\* C15 (SpecBridge): a call that returns has allocated the input buffer, written
\* it, invoked the native primitive, copied the result out, released the result
\* region and released the input buffer, each once and in that order; no call
\* touches a region after releasing it, and what a call returns is made from an
\* array of its own, not from module memory.
C15_CopyBeforeRelease ==
  /\ ~br.stale
  /\ br.status = "returned" =>
       LET at(stmts) == Pos(br.log, CHOOSE x \in stmts : Pos(br.log, x) > 0)
           once(stmts) == Times(br.log, stmts) = 1
           alloc == {"create_buffer", "create_buffer_with_size"}
           native == {"encode", "decode"}
       IN  /\ once(alloc) /\ once({"heap_set"}) /\ once(native) /\ once({"copy"})
           /\ once({"free_result"}) /\ once({"destroy_buffer"})
           /\ at(alloc) < at({"heap_set"})
           /\ at({"heap_set"}) < at(native)
           /\ at(native) < at({"copy"})
           /\ at({"copy"}) < at({"free_result"})
           /\ at({"free_result"}) < at({"destroy_buffer"})
           /\ at({"destroy_buffer"}) < Pos(br.log, "return")
           /\ br.resultIn = "js"
           /\ br.inBuf = "freed"
           /\ br.resReg \in {"freed", "none"}

C15_Witness ==
  /\ br.status = "returned" /\ br.op = "decode" /\ br.native.ok
  /\ br.resReg = "freed" /\ br.stale = FALSE /\ Len(br.log) = Len(DecodeProg)

Settled(p) == p \in {"resolved", "rejected"}
LoadedBy(k) == inits[k].load = "loaded"

\* C13 (SpecInit): a settled init promise never changes; one that is resolved
\* belongs to a load that has completed, with module and api set; once the timer
\* of a call has fired its promise is settled, rejected if the load had not
\* completed; and no bridge call made after an init promise resolved finds
\* module or api null.
C13_SettlesOnce ==
  [][ /\ \A k \in 1..Len(inits) :
           Settled(inits[k].promise) => inits'[k].promise = inits[k].promise
      /\ \A k \in 1..Len(inits') :
           /\ inits'[k].promise = "resolved" =>
                (inits'[k].load = "loaded" /\ module' # 0 /\ api' # 0)
           /\ inits'[k].timer = "fired" =>
                /\ Settled(inits'[k].promise)
                /\ inits'[k].load # "loaded" => inits'[k].promise = "rejected"
      /\ use'.afterResolved => use'.outcome = "ok" ]_vars

C13_Witness ==
  /\ Len(inits) = 2
  /\ inits[1].promise = "resolved" /\ inits[1].timer = "fired"
  /\ inits[2].promise = "rejected" /\ inits[2].load = "failed"
  /\ use.afterResolved /\ use.outcome = "ok"

\* C14 (SpecInit): initialization happens once: no init() call made when the
\* module is loaded starts a load, and at most one load ever completes and
\* stores a module and an api.
C14_OneTimeInit ==
  /\ \A k \in 1..Len(inits) : inits[k].load # "none" => inits[k].atCall = 0
  /\ Cardinality({k \in 1..Len(inits) : LoadedBy(k)}) <= 1

\* C20 (SpecInit): when the only init promise there is was rejected by its
\* timer, module and api are null, whatever the load does afterwards.
C20_StaysUnloaded ==
  \A k \in 1..Len(inits) :
    (inits[k].promise = "rejected" /\ \A j \in 1..Len(inits) : j # k => ~LoadedBy(j))
      => (module = 0 /\ api = 0)

\* C16 (SpecRuns): with two runs on one converter, at most one bridge call is
\* ever under way, the module's memory never holds more than one input buffer
\* and one result region, and it holds none whenever no synchronous code is
\* running and the calls made last have returned.
C16_NoOverlap ==
  /\ Cardinality({r \in 1..2 : runs[r].br.status = "running"}) <= 1
  /\ arena.inBufs <= 1
  /\ arena.resRegs <= 1
  /\ (cur = 0 /\ \E r \in 1..2 : runs[r].br.status = "returned") =>
       (arena.inBufs = 0 /\ arena.resRegs = 0)

====
